---- MODULE Spec2Model ----
(***************************************************************************)
(* keyof: path capture (_PathProxy), path values (KeyOf) and path replay   *)
(* (KeyOf.from_), modelled from src/src/keyof/keyof.py.                    *)
(*                                                                         *)
(* Text is a sequence of code points, so that join, startswith, isdigit,   *)
(* int(), str() and string ordering are computed rather than assumed.      *)
(* Python values are records [t, s, n, kids] of one shape: t the type tag, *)
(* s the text of a str, n the number of an int, kids the items of a        *)
(* list/tuple (key Nil) or the entries of a dict / the fields of a record. *)
(***************************************************************************)
EXTENDS Integers, Sequences, FiniteSets, TLC

VARIABLES
    proxies,    \* the _PathProxy objects made during the running selector call
    made,       \* history: for each proxy, the proxy it was made on and the access
    held,       \* the value the selector's last access produced
    keyofs,     \* the KeyOf objects, each with its instance __dict__
    selector,   \* the literal accesses of the selector the first KeyOf was built by
    instance,   \* the data instance paths are replayed on
    outcome     \* what the last call returned or raised

vars == <<proxies, made, held, keyofs, selector, instance, outcome>>

-----------------------------------------------------------------------------
(* Bounds *)

MaxProxies == 4     \* proxies alive in one selector call (root included)
MaxChain == 2       \* accesses in a selector of the replay specification
MaxDepth == 3       \* segments of a path the value specification starts with
MaxKeyOfs == 3      \* KeyOf objects alive in the value specification

-----------------------------------------------------------------------------
(* Text *)

S_empty == <<>>
S_a == <<97>>
S_b == <<98>>
S_a_dot_b == <<97, 46, 98>>
S_items == <<105, 116, 101, 109, 115>>
S_0 == <<48>>
S_sup2 == <<178>>                                   \* the text U+00B2
S_parts == <<95, 112, 97, 114, 116, 115>>           \* _parts
S_d_ == <<95, 95, 100, 95, 95>>                     \* __d__
S_class == <<95, 95, 99, 108, 97, 115, 115, 95, 95>> \* __class__
S_under2 == <<95, 95>>
S_dot == <<46>>
S_slash == <<47>>
S_D == <<68>>

StartsWith(s, pre) ==
    /\ Len(s) >= Len(pre)
    /\ SubSeq(s, 1, Len(pre)) = pre

EndsWith(s, suf) ==
    /\ Len(s) >= Len(suf)
    /\ SubSeq(s, Len(s) - Len(suf) + 1, Len(s)) = suf

\* str.join: the texts of ps with sep between neighbours
RECURSIVE Join(_, _)
Join(sep, ps) ==
    IF ps = <<>> THEN <<>>
    ELSE IF Len(ps) = 1 THEN ps[1]
    ELSE ps[1] \o sep \o Join(sep, Tail(ps))

\* str.isdigit per character: decimal digits and the digit-like superscripts
IsDigitChar(c) == c \in 48..57 \/ c \in {178, 179, 185}

\* the characters int() accepts as digits
IsDecimalChar(c) == c \in 48..57

IsDigit(s) == Len(s) > 0 /\ \A i \in 1..Len(s) : IsDigitChar(s[i])

RECURSIVE DecimalValue(_)
DecimalValue(s) ==
    IF s = <<>> THEN 0
    ELSE 10 * DecimalValue(SubSeq(s, 1, Len(s) - 1)) + (s[Len(s)] - 48)

\* int(s) for a text s that passed isdigit: a number, or ValueError
IntOf(s) ==
    IF \A i \in 1..Len(s) : IsDecimalChar(s[i])
    THEN [ok |-> TRUE, n |-> DecimalValue(s), exc |-> "none"]
    ELSE [ok |-> FALSE, n |-> 0, exc |-> "ValueError"]

RECURSIVE Digits(_)
Digits(n) == IF n < 10 THEN <<48 + n>> ELSE Digits(n \div 10) \o <<48 + (n % 10)>>

\* str(n) of an int
IntToStr(n) == IF n < 0 THEN <<45>> \o Digits(0 - n) ELSE Digits(n)

\* a < b on str: by code point, a proper prefix first
RECURSIVE StrLess(_, _)
StrLess(a, b) ==
    IF b = <<>> THEN FALSE
    ELSE IF a = <<>> THEN TRUE
    ELSE IF a[1] # b[1] THEN a[1] < b[1]
    ELSE StrLess(Tail(a), Tail(b))

\* p < q on tuples of str: the first differing element decides, a proper prefix first
RECURSIVE TupleLess(_, _)
TupleLess(p, q) ==
    IF q = <<>> THEN FALSE
    ELSE IF p = <<>> THEN TRUE
    ELSE IF p[1] # q[1] THEN StrLess(p[1], q[1])
    ELSE TupleLess(Tail(p), Tail(q))

-----------------------------------------------------------------------------
(* Python values *)

Nil == [t |-> "nil", s |-> <<>>, n |-> 0, kids |-> <<>>]
PyNone == [t |-> "NoneType", s |-> <<>>, n |-> 0, kids |-> <<>>]
PyStr(s) == [t |-> "str", s |-> s, n |-> 0, kids |-> <<>>]
PyInt(n) == [t |-> "int", s |-> <<>>, n |-> n, kids |-> <<>>]
Item(v) == [k |-> Nil, v |-> v]
Entry(k, v) == [k |-> k, v |-> v]
PyList(items) == [t |-> "list", s |-> <<>>, n |-> 0, kids |-> items]
PyTuple(items) == [t |-> "tuple", s |-> <<>>, n |-> 0, kids |-> items]
PyDict(entries) == [t |-> "dict", s |-> <<>>, n |-> 0, kids |-> entries]
PyRecord(fields) == [t |-> "record", s |-> <<>>, n |-> 0, kids |-> fields]
PyMethod(name, self) == [t |-> "method", s |-> name, n |-> 0, kids |-> <<Item(self)>>]

\* str(key) of a key given to the proxy
PyStrOf(key) == IF key.t = "int" THEN IntToStr(key.n) ELSE key.s

-----------------------------------------------------------------------------
(* _PathProxy *)

Raise(exc) == [kind |-> "raise", exc |-> exc]

IsDunder(name) == StartsWith(name, S_under2) /\ EndsWith(name, S_under2)

\* _PathProxy.__init__
NewProxy(parts) == [_parts |-> parts]

\* _PathProxy.__getattr__, called when ordinary lookup finds nothing
ProxyGetattrHook(proxy, name) ==
    IF IsDunder(name)
    THEN Raise("AttributeError")
    ELSE [kind |-> "proxy", proxy |-> NewProxy(proxy._parts \o <<name>>)]

\* names ordinary lookup finds on every object before __getattr__ is asked
ObjectAttrs == {S_class}

\* proxy.<name>: the slot and the names of object are found by ordinary
\* lookup, everything else goes to __getattr__
ProxyGetAttrValue(proxy, name) ==
    IF name = S_parts
    THEN [kind |-> "plain", val |-> PyTuple([i \in 1..Len(proxy._parts) |-> Item(PyStr(proxy._parts[i]))])]
    ELSE IF name \in ObjectAttrs
    THEN [kind |-> "plain", val |-> PyStr(name)]
    ELSE ProxyGetattrHook(proxy, name)

\* _PathProxy.__getitem__
ProxyGetItemValue(proxy, key) ==
    [kind |-> "proxy", proxy |-> NewProxy(proxy._parts \o <<PyStrOf(key)>>)]

\* _PathProxy.__setattr__
ProxySetAttrValue(proxy, name) == Raise("TypeError")

-----------------------------------------------------------------------------
(* nn *)

\* nn itself, as a value a selector can mention
TheNonNull == [kind |-> "nn"]

\* an __ror__ that strips the value to None
NonNullRorNone(value) == [kind |-> "return", val |-> [kind |-> "literal", val |-> PyNone]]

\* _NonNull.__call__
NonNullCall(value) == [kind |-> "return", val |-> value]

\* _NonNull.__ror__
NonNullRor(value) == [kind |-> "return", val |-> value]

\* left | nn: the type of left is asked first, and neither _PathProxy nor
\* NoneType, str, int, tuple define an __or__ that takes nn; nn.__ror__ is
\* asked next, unless left is of nn's own type, which has no __or__: then
\* the operator raises TypeError
PipeNonNull(left) ==
    IF left.kind = "nn" THEN Raise("TypeError") ELSE NonNullRor(left)

-----------------------------------------------------------------------------
(* KeyOf: construction and immutability *)

EmptyDict == [x \in {} |-> <<>>]

DictSet(d, name, value) ==
    [x \in (DOMAIN d) \cup {name} |-> IF x = name THEN value ELSE d[x]]

\* object.__new__(KeyOf)
NewObject == [dict |-> EmptyDict]

\* object.__setattr__(obj, name, value)
ObjectSetattr(obj, name, value) == [dict |-> DictSet(obj.dict, name, value)]

\* KeyOf.__setattr__ without the test that _parts is not yet set
KeyOfSetattrUnguarded(obj, name, value) ==
    IF name = "_parts"
    THEN [kind |-> "return", obj |-> ObjectSetattr(obj, name, value)]
    ELSE [kind |-> "raise", exc |-> "AttributeError", obj |-> obj]

\* KeyOf.__setattr__
KeyOfSetattr(obj, name, value) ==
    IF name = "_parts" /\ "_parts" \notin DOMAIN obj.dict
    THEN [kind |-> "return", obj |-> ObjectSetattr(obj, name, value)]
    ELSE [kind |-> "raise", exc |-> "AttributeError", obj |-> obj]

\* KeyOf.__init__ once the selector has returned ret
KeyOfInitValue(ret) ==
    IF ret.kind # "proxy"
    THEN [kind |-> "raise", exc |-> "TypeError", obj |-> NewObject]
    ELSE KeyOfSetattr(NewObject, "_parts", ret.proxy._parts)

\* KeyOf.parts
Parts(obj) == obj.dict["_parts"]

-----------------------------------------------------------------------------
(* Capture: a selector runs on the proxy, step by step *)

CaptureNames == {S_a, S_parts, S_d_, S_class}
CaptureKeys == {PyInt(0), PyInt(0 - 1), PyStr(S_a_dot_b)}
Literals == {PyStr(S_a), PyInt(1)}

NoHeld == [kind |-> "none"]
Idle == [op |-> "idle", kind |-> "none"]
RootMade == [src |-> 0, seg |-> <<>>]

SelectorRunning == outcome.op # "init"

InitCapture ==
    /\ proxies = <<NewProxy(<<>>)>>
    /\ made = <<RootMade>>
    /\ held = NoHeld
    /\ keyofs = <<>>
    /\ selector = <<>>
    /\ instance = PyNone
    /\ outcome = Idle

\* what an access on proxy i does to the state: a new proxy joins the heap,
\* a plain value is only held, an exception leaves everything as it was
Access(op, i, seg, r) ==
    /\ proxies' = IF r.kind = "proxy" THEN Append(proxies, r.proxy) ELSE proxies
    /\ made' = IF r.kind = "proxy" THEN Append(made, [src |-> i, seg |-> seg]) ELSE made
    /\ held' = IF r.kind = "proxy" THEN [kind |-> "proxy", ref |-> Len(proxies) + 1]
               ELSE IF r.kind = "plain" THEN [kind |-> "plain", val |-> r.val, src |-> i, seg |-> seg]
               ELSE held
    /\ outcome' = [op |-> op, kind |-> r.kind, on |-> i, seg |-> seg,
                   before |-> proxies,
                   exc |-> IF r.kind = "raise" THEN r.exc ELSE "none"]
    /\ UNCHANGED <<keyofs, selector, instance>>

\* the selector reads proxy.<name>
ProxyGetAttr(i, name) ==
    /\ SelectorRunning
    /\ Len(proxies) < MaxProxies
    /\ Access("getattr", i, name, ProxyGetAttrValue(proxies[i], name))

\* the selector reads proxy[key]
ProxyGetItem(i, key) ==
    /\ SelectorRunning
    /\ Len(proxies) < MaxProxies
    /\ Access("getitem", i, PyStrOf(key), ProxyGetItemValue(proxies[i], key))

\* the selector assigns proxy.<name> = ...
ProxySetAttr(i, name) ==
    /\ SelectorRunning
    /\ Access("setattr", i, name, ProxySetAttrValue(proxies[i], name))

\* the selector returns ret to KeyOf.__init__
KeyOfInit(ret) ==
    /\ SelectorRunning
    /\ LET r == KeyOfInitValue(ret)
       IN /\ keyofs' = IF r.kind = "return" THEN <<r.obj>> ELSE <<>>
          /\ outcome' = [op |-> "init", kind |-> r.kind, ret |-> ret,
                         exc |-> IF r.kind = "raise" THEN r.exc ELSE "none"]
    /\ UNCHANGED <<proxies, made, held, selector, instance>>

\* the values a selector can hand to nn: a proxy it made, the plain value it
\* holds, None, or nn itself
NonNullArgs ==
    {[kind |-> "proxy", ref |-> i, proxy |-> proxies[i]] : i \in DOMAIN proxies}
    \cup (IF held.kind = "plain" THEN {held} ELSE {})
    \cup {[kind |-> "literal", val |-> PyNone], TheNonNull}

\* the selector evaluates nn(v) (form "call") or (v | nn) (form "pipe") and
\* goes on with the result: a proxy it gets back is one of the heap, a plain
\* value is what it holds next
NonNull(form, v) ==
    /\ SelectorRunning
    /\ LET r == IF form = "call" THEN NonNullCall(v) ELSE PipeNonNull(v)
       IN /\ held' = IF r.kind = "return" /\ r.val.kind = "plain" THEN r.val ELSE held
          /\ outcome' = [op |-> "nn", form |-> form, kind |-> r.kind, arg |-> v,
                         res |-> r, before |-> proxies,
                         exc |-> IF r.kind = "raise" THEN r.exc ELSE "none"]
    /\ UNCHANGED <<proxies, made, keyofs, selector, instance>>

\* the values a selector can return: a proxy it made, the plain value it
\* holds, or a literal
Returnable ==
    {[kind |-> "proxy", ref |-> i, proxy |-> proxies[i]] : i \in DOMAIN proxies}
    \cup (IF held.kind = "plain" THEN {held} ELSE {})
    \cup {[kind |-> "literal", val |-> v] : v \in Literals}

\* KeyOf(selector) is called again: a fresh root proxy is handed to the selector
KeyOfCall ==
    /\ ~SelectorRunning
    /\ proxies' = <<NewProxy(<<>>)>>
    /\ made' = <<RootMade>>
    /\ held' = NoHeld
    /\ keyofs' = <<>>
    /\ outcome' = Idle
    /\ UNCHANGED <<selector, instance>>

Next ==
    \/ \E i \in DOMAIN proxies, name \in CaptureNames : ProxyGetAttr(i, name)
    \/ \E i \in DOMAIN proxies, key \in CaptureKeys : ProxyGetItem(i, key)
    \/ \E i \in DOMAIN proxies, name \in CaptureNames : ProxySetAttr(i, name)
    \/ \E form \in {"call", "pipe"}, v \in NonNullArgs : NonNull(form, v)
    \/ \E ret \in Returnable : KeyOfInit(ret)
    \/ KeyOfCall

Spec == InitCapture /\ [][Next]_vars

-----------------------------------------------------------------------------
(* Python's attribute and item access on data *)

Ok(v) == [ok |-> TRUE, val |-> v, exc |-> "none"]
Fail(exc) == [ok |-> FALSE, val |-> Nil, exc |-> exc]

\* the first entry of kids whose key is key
RECURSIVE Lookup(_, _)
Lookup(kids, key) ==
    IF kids = <<>> THEN Fail("KeyError")
    ELSE IF kids[1].k = key THEN Ok(kids[1].v)
    ELSE Lookup(Tail(kids), key)

\* method names of dict among the names the model uses
DictAttrs == {S_items}

\* getattr(v, name)
PyGetAttr(v, name) ==
    IF v.t = "record" THEN
        LET f == Lookup(v.kids, PyStr(name))
        IN IF f.ok THEN f ELSE Fail("AttributeError")
    ELSE IF v.t = "dict" /\ name \in DictAttrs THEN Ok(PyMethod(name, v))
    ELSE Fail("AttributeError")

\* seq[n] with Python's negative indexes; len is the length of seq
SeqIndex(len, n) ==
    IF 0 <= n /\ n < len THEN n + 1
    ELSE IF n < 0 /\ 0 - len <= n THEN len + n + 1
    ELSE 0

\* v[key]
PyGetItem(v, key) ==
    IF v.t \in {"list", "tuple"} THEN
        IF key.t # "int" THEN Fail("TypeError")
        ELSE LET j == SeqIndex(Len(v.kids), key.n)
             IN IF j = 0 THEN Fail("IndexError") ELSE Ok(v.kids[j].v)
    ELSE IF v.t = "str" THEN
        IF key.t # "int" THEN Fail("TypeError")
        ELSE LET j == SeqIndex(Len(v.s), key.n)
             IN IF j = 0 THEN Fail("IndexError") ELSE Ok(PyStr(<<v.s[j]>>))
    ELSE IF v.t = "dict" THEN Lookup(v.kids, key)
    ELSE Fail("TypeError")

\* type(v).__name__
TypeName(v) == v.t

-----------------------------------------------------------------------------
(* KeyOf.from_ *)

\* the _MISSING sentinel
Missing == [t |-> "missing", s |-> <<>>, n |-> 0, kids |-> <<>>]

\* the fallback without the integer index: the segment is always used as a key
ItemFallbackTextOnly(current, part) == PyGetItem(current, PyStr(part))

\* the fallback with the integer index on every value, mappings included
ItemFallbackIntOnMapping(current, part) ==
    IF IsDigit(part)
    THEN LET n == IntOf(part)
         IN IF n.ok THEN PyGetItem(current, PyInt(n.n)) ELSE Fail(n.exc)
    ELSE PyGetItem(current, PyStr(part))

\* the item-access fallback of from_: an integer index on list, tuple and str
\* when the segment passes isdigit, the segment as a key otherwise
ItemFallback(current, part) ==
    IF current.t \in {"list", "tuple", "str"} /\ IsDigit(part)
    THEN LET n == IntOf(part)
         IN IF n.ok THEN PyGetItem(current, PyInt(n.n)) ELSE Fail(n.exc)
    ELSE PyGetItem(current, PyStr(part))

\* the exceptions the fallback's except clause catches
CaughtByFallback == {"KeyError", "IndexError", "TypeError"}

FromReturn(v, i) ==
    [kind |-> "return", val |-> v, exc |-> "none", at |-> i,
     part |-> <<>>, on |-> "", prefix |-> <<>>]

FromRaise(exc, i, part, on, prefix) ==
    [kind |-> "raise", val |-> Nil, exc |-> exc, at |-> i,
     part |-> part, on |-> on, prefix |-> prefix]

\* segment i (counted from 1) could not be resolved on current
Unresolved(parts, i, on, default) ==
    IF default = Missing
    THEN FromRaise("AttributeError", i, parts[i], on, Join(S_dot, SubSeq(parts, 1, i - 1)))
    ELSE FromReturn(default, i)

\* the loop of from_ from segment i on
RECURSIVE FromLoop(_, _, _, _)
FromLoop(parts, i, current, default) ==
    IF i > Len(parts) THEN FromReturn(current, i)
    ELSE IF current = PyNone THEN Unresolved(parts, i, "None", default)
    ELSE LET a == PyGetAttr(current, parts[i])
         IN IF a.ok THEN FromLoop(parts, i + 1, a.val, default)
            ELSE LET r == ItemFallback(current, parts[i])
                 IN IF r.ok THEN FromLoop(parts, i + 1, r.val, default)
                    ELSE IF r.exc \in CaughtByFallback
                    THEN Unresolved(parts, i, TypeName(current), default)
                    ELSE FromRaise(r.exc, i, parts[i], TypeName(current), <<>>)

\* from_ testing for None before the loop instead of inside it
FromValueNoneFirst(self, obj, default) ==
    IF obj = PyNone /\ default # Missing THEN FromReturn(default, 0)
    ELSE FromLoop(Parts(self), 1, obj, default)

\* KeyOf.from_(obj, default)
FromValue(self, obj, default) == FromLoop(Parts(self), 1, obj, default)

-----------------------------------------------------------------------------
(* Replay: a selector written as literal accesses, captured and replayed *)

Attr(name) == [kind |-> "attr", key |-> PyStr(name)]
Index(key) == [kind |-> "item", key |-> key]

ReplayAccesses ==
    {Attr(S_a), Attr(S_b),
     Index(PyStr(S_a)), Index(PyStr(S_items)), Index(PyStr(S_sup2)), Index(PyStr(S_0)),
     Index(PyInt(0)), Index(PyInt(1)), Index(PyInt(0 - 1))}

Chains == UNION {[1..n -> ReplayAccesses] : n \in 0..MaxChain}

\* a record with a nested record and a field that is None
I_user ==
    PyRecord(<<Entry(PyStr(S_a), PyRecord(<<Entry(PyStr(S_b), PyStr(S_D))>>)),
               Entry(PyStr(S_b), PyNone)>>)

\* a dict with a list, a key named like a dict method, and an int key
I_dict ==
    PyDict(<<Entry(PyStr(S_a), PyList(<<Item(PyStr(S_a)), Item(PyStr(S_b))>>)),
             Entry(PyStr(S_items), PyInt(7)),
             Entry(PyInt(1), PyStr(S_b))>>)

\* a list of a dict and a str
I_list == PyList(<<Item(PyDict(<<Entry(PyStr(S_a), PyInt(1))>>)), Item(PyStr(S_a_dot_b))>>)

\* a dict whose keys are digit texts
I_digits ==
    PyDict(<<Entry(PyStr(S_0), PyInt(0)), Entry(PyStr(S_sup2), PyInt(2)),
             Entry(PyStr(S_a), PyNone)>>)

I_tuple == PyTuple(<<Item(PyInt(3)), Item(PyRecord(<<Entry(PyStr(S_a), PyStr(S_b))>>))>>)

Instances == {I_user, I_dict, I_list, I_digits, I_tuple, PyStr(S_a_dot_b), PyNone, PyInt(5)}

Defaults == {Missing, PyNone, PyStr(S_D)}

\* one access of the selector on what it holds: on a proxy the proxy answers,
\* on a plain value Python's own access does
SelectorStep(cur, acc) ==
    IF cur.kind = "raise" THEN cur
    ELSE IF cur.kind = "proxy" THEN
        IF acc.kind = "attr" THEN ProxyGetAttrValue(cur.proxy, acc.key.s)
        ELSE ProxyGetItemValue(cur.proxy, acc.key)
    ELSE LET r == IF acc.kind = "attr" THEN PyGetAttr(cur.val, acc.key.s)
                  ELSE PyGetItem(cur.val, acc.key)
         IN IF r.ok THEN [kind |-> "plain", val |-> r.val] ELSE Raise(r.exc)

\* selector(_PathProxy()) for the selector that makes the accesses of chain
RECURSIVE RunSelector(_, _)
RunSelector(cur, chain) ==
    IF chain = <<>> THEN cur
    ELSE RunSelector(SelectorStep(cur, chain[1]), Tail(chain))

\* the same accesses made on the object itself
RECURSIVE Navigate(_, _)
Navigate(res, chain) ==
    IF chain = <<>> \/ ~res.ok THEN res
    ELSE Navigate(IF chain[1].kind = "attr" THEN PyGetAttr(res.val, chain[1].key.s)
                  ELSE PyGetItem(res.val, chain[1].key),
                  Tail(chain))

InitReplay ==
    /\ proxies = <<>>
    /\ made = <<>>
    /\ held = NoHeld
    /\ keyofs = <<>>
    /\ selector = <<>>
    /\ instance \in Instances
    /\ outcome = Idle

\* KeyOf(selector) for the selector that makes the accesses of chain
Construct(chain) ==
    /\ outcome.op = "idle"
    /\ LET ret == RunSelector([kind |-> "proxy", proxy |-> NewProxy(<<>>)], chain)
           r == IF ret.kind = "raise"
                THEN [kind |-> "raise", exc |-> ret.exc, obj |-> NewObject]
                ELSE KeyOfInitValue(ret)
       IN /\ keyofs' = IF r.kind = "return" THEN <<r.obj>> ELSE <<>>
          /\ outcome' = [op |-> "init", kind |-> r.kind,
                         exc |-> IF r.kind = "raise" THEN r.exc ELSE "none"]
    /\ selector' = chain
    /\ UNCHANGED <<proxies, made, held, instance>>

\* keyofs[k].from_(instance) and keyofs[k].from_(instance, default)
Replay(k, default) ==
    /\ outcome' = [op |-> "from_", k |-> k, obj |-> instance, default |-> default,
                   res |-> FromValue(keyofs[k], instance, default)]
    /\ UNCHANGED <<proxies, made, held, keyofs, selector, instance>>

NextReplay ==
    \/ \E chain \in Chains : Construct(chain)
    \/ \E k \in DOMAIN keyofs, default \in Defaults : Replay(k, default)

ReplaySpec == InitReplay /\ [][NextReplay]_vars

-----------------------------------------------------------------------------
(* KeyOf: introspection, serialization, comparison *)

Returned(v) == [kind |-> "return", val |-> v, exc |-> "none"]
Raised(exc) == [kind |-> "raise", val |-> Nil, exc |-> exc]

\* KeyOf.depth
KeyOfDepth(self) == Len(Parts(self))

\* KeyOf.leaf: _parts[-1]
KeyOfLeaf(self) ==
    IF Len(Parts(self)) = 0 THEN Raised("IndexError")
    ELSE Returned(Parts(self)[Len(Parts(self))])

\* KeyOf.root: _parts[0]
KeyOfRoot(self) ==
    IF Len(Parts(self)) = 0 THEN Raised("IndexError")
    ELSE Returned(Parts(self)[1])

\* parent() refusing the empty path only
KeyOfParentOffByOne(self) ==
    IF Len(Parts(self)) < 1
    THEN [kind |-> "raise", exc |-> "ValueError", obj |-> NewObject]
    ELSE [kind |-> "return", exc |-> "none",
          obj |-> ObjectSetattr(NewObject, "_parts",
                                SubSeq(Parts(self), 1, Len(Parts(self)) - 1))]

\* KeyOf.parent
KeyOfParent(self) ==
    IF Len(Parts(self)) < 2
    THEN [kind |-> "raise", exc |-> "ValueError", obj |-> NewObject]
    ELSE [kind |-> "return", exc |-> "none",
          obj |-> ObjectSetattr(NewObject, "_parts",
                                SubSeq(Parts(self), 1, Len(Parts(self)) - 1))]

ToDot(self) == Join(S_dot, Parts(self))
\* to_posix joining with the dot
ToPosixDotted(self) == Join(S_dot, Parts(self))

ToPosix(self) == Join(S_slash, Parts(self))
ToPython(self) == Join(S_dot, Parts(self))
ToJmespath(self) == Join(S_dot, Parts(self))
ToJsonpath(self) == <<36, 46>> \o Join(S_dot, Parts(self))
ToXpath(self) == S_slash \o Join(S_slash, Parts(self))

\* "".join(f"['{p}']" for p in parts)
RECURSIVE Bracketed(_)
Bracketed(ps) ==
    IF ps = <<>> THEN <<>>
    ELSE <<91, 39>> \o ps[1] \o <<39, 93>> \o Bracketed(Tail(ps))

ToBracket(self) == Bracketed(Parts(self))

\* KeyOf.__str__
KeyOfStr(self) == ToDot(self)

Serialize(fmt, self) ==
    CASE fmt = "to_dot" -> ToDot(self)
      [] fmt = "to_posix" -> ToPosix(self)
      [] fmt = "to_python" -> ToPython(self)
      [] fmt = "to_bracket" -> ToBracket(self)
      [] fmt = "to_jmespath" -> ToJmespath(self)
      [] fmt = "to_jsonpath" -> ToJsonpath(self)
      [] fmt = "to_xpath" -> ToXpath(self)
      [] fmt = "str" -> KeyOfStr(self)

Formats ==
    {"to_dot", "to_posix", "to_python", "to_bracket", "to_jmespath", "to_jsonpath",
     "to_xpath", "str"}

\* the names of the keyword arguments KeyOf.format passes to str.format
N_parts == <<112, 97, 114, 116, 115>>
N_root == <<114, 111, 111, 116>>
N_leaf == <<108, 101, 97, 102>>
N_depth == <<100, 101, 112, 116, 104>>
N_dot == <<100, 111, 116>>
N_posix == <<112, 111, 115, 105, 120>>
N_bracket == <<98, 114, 97, 99, 107, 101, 116>>
N_jsonpath == <<106, 115, 111, 110, 112, 97, 116, 104>>
N_xpath == <<120, 112, 97, 116, 104>>
N_sep == <<115, 101, 112>>

FormatNames ==
    {N_parts, N_root, N_leaf, N_depth, N_dot, N_posix, N_bracket, N_jsonpath, N_xpath, N_sep}

\* repr() of a str that holds no quote, backslash or unprintable character
StrRepr(s) == <<39>> \o s \o <<39>>

\* str() of a tuple of str: ('a', 'b'), and ('a',) for a single item
TupleStr(ps) ==
    <<40>> \o Join(<<44, 32>>, [i \in 1..Len(ps) |-> StrRepr(ps[i])])
           \o (IF Len(ps) = 1 THEN <<44>> ELSE <<>>) \o <<41>>

\* _JoinHelper.join(sep)
JoinHelperJoin(parts, sep) == Join(sep, parts)

\* _JoinHelper.__format__(spec): self.join() with the default separator
JoinHelperFormat(parts) == JoinHelperJoin(parts, S_dot)

\* the keyword arguments of template.format(...), each as format(value, "")
\* renders it; root and leaf arrive evaluated
FormatKwargs(self, root, leaf) ==
    [n \in FormatNames |->
        CASE n = N_parts -> TupleStr(Parts(self))
          [] n = N_root -> root
          [] n = N_leaf -> leaf
          [] n = N_depth -> IntToStr(KeyOfDepth(self))
          [] n = N_dot -> ToDot(self)
          [] n = N_posix -> ToPosix(self)
          [] n = N_bracket -> ToBracket(self)
          [] n = N_jsonpath -> ToJsonpath(self)
          [] n = N_xpath -> ToXpath(self)
          [] n = N_sep -> JoinHelperFormat(Parts(self))]

\* the position of the first "}" of t at or after i, 0 when there is none
RECURSIVE FindClose(_, _)
FindClose(t, i) ==
    IF i > Len(t) THEN 0 ELSE IF t[i] = 125 THEN i ELSE FindClose(t, i + 1)

\* str.format with keyword arguments only, over fields that are plain names:
\* "{{" and "}}" give one brace, a single brace is a ValueError, "{}" asks
\* for positional argument 0 (IndexError), an unknown name is a KeyError
RECURSIVE StrFormat(_, _, _, _)
StrFormat(t, i, acc, kw) ==
    IF i > Len(t) THEN Returned(acc)
    ELSE IF t[i] = 123 THEN
        IF i < Len(t) /\ t[i + 1] = 123 THEN StrFormat(t, i + 2, acc \o <<123>>, kw)
        ELSE LET j == FindClose(t, i + 1)
                 name == SubSeq(t, i + 1, j - 1)
             IN IF j = 0 THEN Raised("ValueError")
                ELSE IF name = <<>> THEN Raised("IndexError")
                ELSE IF name \notin DOMAIN kw THEN Raised("KeyError")
                ELSE StrFormat(t, j + 1, acc \o kw[name], kw)
    ELSE IF t[i] = 125 THEN
        IF i < Len(t) /\ t[i + 1] = 125 THEN StrFormat(t, i + 2, acc \o <<125>>, kw)
        ELSE Raised("ValueError")
    ELSE StrFormat(t, i + 1, acc \o <<t[i]>>, kw)

\* format() passing the root for the leaf
KeyOfFormatLeafIsRoot(self, template) ==
    IF KeyOfRoot(self).kind = "raise" THEN Raised(KeyOfRoot(self).exc)
    ELSE IF KeyOfLeaf(self).kind = "raise" THEN Raised(KeyOfLeaf(self).exc)
    ELSE StrFormat(template, 1, <<>>,
                   FormatKwargs(self, KeyOfRoot(self).val, KeyOfRoot(self).val))

\* format() reading root and leaf as empty texts on the path without segments
KeyOfFormatForgiving(self, template) ==
    StrFormat(template, 1, <<>>,
              FormatKwargs(self,
                           IF KeyOfRoot(self).kind = "raise" THEN <<>> ELSE KeyOfRoot(self).val,
                           IF KeyOfLeaf(self).kind = "raise" THEN <<>> ELSE KeyOfLeaf(self).val))

\* KeyOf.format: the arguments are evaluated before str.format runs, self.root
\* and self.leaf among them
KeyOfFormat(self, template) ==
    IF KeyOfRoot(self).kind = "raise" THEN Raised(KeyOfRoot(self).exc)
    ELSE IF KeyOfLeaf(self).kind = "raise" THEN Raised(KeyOfLeaf(self).exc)
    ELSE StrFormat(template, 1, <<>>,
                   FormatKwargs(self, KeyOfRoot(self).val, KeyOfLeaf(self).val))

\* hash() of a str and of a tuple of str, as a polynomial over the code points
RECURSIVE StrHash(_)
StrHash(s) == IF s = <<>> THEN 7 ELSE (StrHash(SubSeq(s, 1, Len(s) - 1)) * 31 + s[Len(s)]) % 65521

RECURSIVE TupleHash(_)
TupleHash(ps) ==
    IF ps = <<>> THEN 3
    ELSE (TupleHash(SubSeq(ps, 1, Len(ps) - 1)) * 131 + StrHash(ps[Len(ps)])) % 65521

\* KeyOf.__hash__
KeyOfHash(self) == TupleHash(Parts(self))

\* the right operand of a comparison: a KeyOf or a plain value
OtherKeyOf(obj) == [t |-> "KeyOf", obj |-> obj, val |-> Nil]
OtherPlain(v) == [t |-> v.t, obj |-> NewObject, val |-> v]

\* __eq__ comparing two KeyOf by their dot renderings
KeyOfEqByDot(self, other) ==
    IF other.t = "KeyOf" THEN (IF ToDot(self) = ToDot(other.obj) THEN "True" ELSE "False")
    ELSE IF other.t = "str" THEN (IF ToDot(self) = other.val.s THEN "True" ELSE "False")
    ELSE "NotImplemented"

\* KeyOf.__eq__
KeyOfEq(self, other) ==
    IF other.t = "KeyOf" THEN (IF Parts(self) = Parts(other.obj) THEN "True" ELSE "False")
    ELSE IF other.t = "str" THEN (IF ToDot(self) = other.val.s THEN "True" ELSE "False")
    ELSE "NotImplemented"

\* __lt__ comparing the dot renderings
KeyOfLtByDot(self, other) ==
    IF other.t = "KeyOf"
    THEN (IF StrLess(ToDot(self), ToDot(other.obj)) THEN "True" ELSE "False")
    ELSE "NotImplemented"

\* KeyOf.__lt__
KeyOfLt(self, other) ==
    IF other.t = "KeyOf"
    THEN (IF TupleLess(Parts(self), Parts(other.obj)) THEN "True" ELSE "False")
    ELSE "NotImplemented"

\* self == other: when __eq__ declines and the other side has nothing to say
\* either, two different objects are unequal
EqOperator(self, other) ==
    LET r == KeyOfEq(self, other)
    IN IF r = "NotImplemented" THEN Returned(FALSE) ELSE Returned(r = "True")

\* self < other: when __lt__ declines and the other side's __gt__ does too,
\* the operator raises TypeError
LtOperator(self, other) ==
    LET r == KeyOfLt(self, other)
    IN IF r = "NotImplemented" THEN Raised("TypeError") ELSE Returned(r = "True")

\* sorted(objs): a stable insertion sort that compares with < only
RECURSIVE InsertSorted(_, _)
InsertSorted(sorted, x) ==
    IF sorted = <<>> THEN <<x>>
    ELSE IF LtOperator(x, OtherKeyOf(sorted[Len(sorted)])).val = TRUE
    THEN Append(InsertSorted(SubSeq(sorted, 1, Len(sorted) - 1), x), sorted[Len(sorted)])
    ELSE Append(sorted, x)

RECURSIVE SortedOf(_)
SortedOf(objs) ==
    IF objs = <<>> THEN <<>>
    ELSE InsertSorted(SortedOf(SubSeq(objs, 1, Len(objs) - 1)), objs[Len(objs)])

-----------------------------------------------------------------------------
(* Values: operations on KeyOf objects that exist *)

Segments == {S_a, S_a_dot_b}

Paths == UNION {[1..n -> Segments] : n \in 0..MaxDepth}

\* the KeyOf a selector with these accesses builds
Built(parts) == ObjectSetattr(NewObject, "_parts", parts)

\* operands other than the objects alive: paths built on the spot and plain values
OtherObjects == <<Built(<<S_a_dot_b>>), Built(<<S_a, S_b>>), Built(<<S_a>>)>>

PlainOperands == {PyStr(S_a_dot_b), PyStr(S_empty), PyInt(1), PyNone}

Operands ==
    {OtherKeyOf(keyofs[j]) : j \in DOMAIN keyofs}
    \cup {OtherKeyOf(OtherObjects[j]) : j \in DOMAIN OtherObjects}
    \cup {OtherPlain(v) : v \in PlainOperands}

AssignedNames == {"_parts", "some_attr"}

\* the instances the paths of this specification are replayed on
ValueInstances == {I_user, I_dict, PyStr(S_a_dot_b), PyNone}

\* templates, each as its pieces: text without braces, a field, an escaped brace
Text(s) == [kind |-> "text", s |-> s]
Field(name) == [kind |-> "field", s |-> name]
Escape(brace) == [kind |-> "escape", s |-> brace]

TemplatePieces ==
    {<<Field(N_root), Text(<<32, 45, 62, 32>>), Field(N_leaf)>>,
     <<Text(S_D), Field(N_depth), Field(N_sep)>>,
     <<Field(N_dot), Field(N_posix), Field(N_bracket)>>,
     <<Field(N_jsonpath), Field(N_xpath), Field(N_parts)>>,
     <<Text(S_a_dot_b)>>,
     <<Escape(<<123>>), Field(N_dot), Escape(<<125>>)>>,
     <<>>}

\* the template string the pieces spell
RECURSIVE TemplateText(_)
TemplateText(pieces) ==
    IF pieces = <<>> THEN <<>>
    ELSE (CASE pieces[1].kind = "text" -> pieces[1].s
            [] pieces[1].kind = "field" -> <<123>> \o pieces[1].s \o <<125>>
            [] pieces[1].kind = "escape" -> pieces[1].s \o pieces[1].s)
         \o TemplateText(Tail(pieces))

\* templates str.format refuses: an unknown name, an unclosed field, a
\* single closing brace
BadTemplates == {<<123, 97, 125>>, <<123, 100, 111, 116>>, <<97, 125>>}

Templates == {TemplateText(p) : p \in TemplatePieces} \cup BadTemplates

InitValue ==
    /\ proxies = <<>>
    /\ made = <<>>
    /\ held = NoHeld
    /\ keyofs \in {<<Built(parts)>> : parts \in Paths}
    /\ selector = <<>>
    /\ instance = PyNone
    /\ outcome = Idle

Untouched == UNCHANGED <<proxies, made, held, selector, instance>>

\* keyofs[k].parent()
Parent(k) ==
    /\ LET r == KeyOfParent(keyofs[k])
       IN /\ keyofs' = IF r.kind = "return" /\ Len(keyofs) < MaxKeyOfs
                       THEN Append(keyofs, r.obj) ELSE keyofs
          /\ outcome' = [op |-> "parent", k |-> k, heap |-> keyofs, kind |-> r.kind,
                         exc |-> r.exc, obj |-> r.obj]
    /\ Untouched

\* keyofs[k].<name> = value
SetAttr(k, name, value) ==
    /\ LET r == KeyOfSetattr(keyofs[k], name, value)
       IN /\ keyofs' = [keyofs EXCEPT ![k] = r.obj]
          /\ outcome' = [op |-> "setattr", k |-> k, heap |-> keyofs, kind |-> r.kind,
                         name |-> name,
                         exc |-> IF r.kind = "raise" THEN r.exc ELSE "none"]
    /\ Untouched

\* keyofs[k].root, .leaf, .depth and hash(keyofs[k])
Inspect(k, what) ==
    /\ outcome' = [op |-> what, k |-> k, heap |-> keyofs,
                   res |-> CASE what = "root" -> KeyOfRoot(keyofs[k])
                             [] what = "leaf" -> KeyOfLeaf(keyofs[k])
                             [] what = "depth" -> Returned(KeyOfDepth(keyofs[k]))
                             [] what = "hash" -> Returned(KeyOfHash(keyofs[k]))]
    /\ UNCHANGED keyofs
    /\ Untouched

\* keyofs[k].to_dot() and the other serializations, and str(keyofs[k])
Render(k, fmt) ==
    /\ outcome' = [op |-> "render", k |-> k, heap |-> keyofs, fmt |-> fmt,
                   res |-> Returned(Serialize(fmt, keyofs[k]))]
    /\ UNCHANGED keyofs
    /\ Untouched

\* keyofs[k] == other and keyofs[k] < other
Compare(k, op, other) ==
    /\ outcome' = [op |-> op, k |-> k, heap |-> keyofs, other |-> other,
                   res |-> IF op = "eq" THEN EqOperator(keyofs[k], other)
                           ELSE LtOperator(keyofs[k], other)]
    /\ UNCHANGED keyofs
    /\ Untouched

\* sorted(keyofs + the other objects)
Sort ==
    /\ outcome' = [op |-> "sorted", heap |-> keyofs, input |-> keyofs \o OtherObjects,
                   res |-> SortedOf(keyofs \o OtherObjects)]
    /\ UNCHANGED keyofs
    /\ Untouched

\* keyofs[k].from_(obj) and keyofs[k].from_(obj, default)
ReplayOn(k, obj, default) ==
    /\ outcome' = [op |-> "from_", k |-> k, heap |-> keyofs, obj |-> obj,
                   default |-> default, res |-> FromValue(keyofs[k], obj, default)]
    /\ UNCHANGED keyofs
    /\ Untouched

\* keyofs[k].format(template)
Format(k, template) ==
    /\ outcome' = [op |-> "format", k |-> k, heap |-> keyofs, template |-> template,
                   res |-> KeyOfFormat(keyofs[k], template)]
    /\ UNCHANGED keyofs
    /\ Untouched

NextValue ==
    \/ \E k \in DOMAIN keyofs : Parent(k)
    \/ \E k \in DOMAIN keyofs, name \in AssignedNames, parts \in {<<S_b>>} : SetAttr(k, name, parts)
    \/ \E k \in DOMAIN keyofs, what \in {"root", "leaf", "depth", "hash"} : Inspect(k, what)
    \/ \E k \in DOMAIN keyofs, fmt \in Formats : Render(k, fmt)
    \/ \E k \in DOMAIN keyofs, template \in Templates : Format(k, template)
    \/ \E k \in DOMAIN keyofs, op \in {"eq", "lt"}, other \in Operands : Compare(k, op, other)
    \/ Sort
    \/ \E k \in DOMAIN keyofs, obj \in ValueInstances, default \in Defaults : ReplayOn(k, obj, default)

ValueSpec == InitValue /\ [][NextValue]_vars

-----------------------------------------------------------------------------
(* Claims on capture *)

\* the accesses that led from the root proxy to proxy i, oldest first
RECURSIVE ChainOf(_)
ChainOf(i) == IF made[i].src = 0 THEN <<>> ELSE Append(ChainOf(made[i].src), made[i].seg)

AccessMadeNewProxy ==
    /\ outcome.kind = "proxy"
    /\ proxies = Append(outcome.before,
                        NewProxy(outcome.before[outcome.on]._parts \o <<outcome.seg>>))

PartsAreTheChain ==
    (outcome.op = "init" /\ outcome.ret.kind = "proxy")
        => /\ outcome.kind = "return"
           /\ Len(keyofs) = 1
           /\ Parts(keyofs[1]) = ChainOf(outcome.ret.ref)

\* C1: every attribute access with a non-dunder name and every index access
\* yields a new proxy carrying the old path plus the accessed name or str(key),
\* the proxies made before are left as they were, and the parts of the KeyOf
\* built from the returned proxy are the accesses on its own chain, in order.
C1_EveryAccessIsRecorded ==
    /\ (outcome.op = "getattr" /\ ~IsDunder(outcome.seg)) => AccessMadeNewProxy
    /\ outcome.op = "getitem" => AccessMadeNewProxy
    /\ PartsAreTheChain

\* C1, for every name but the proxy's own slot name
C1_EveryAccessButSlotIsRecorded ==
    /\ (outcome.op = "getattr" /\ ~IsDunder(outcome.seg) /\ outcome.seg # S_parts)
            => AccessMadeNewProxy
    /\ outcome.op = "getitem" => AccessMadeNewProxy
    /\ PartsAreTheChain

\* a KeyOf was built from a proxy on one branch while another branch exists
C1_BranchWitness ==
    /\ outcome.op = "init" /\ outcome.kind = "return"
    /\ Len(Parts(keyofs[1])) = 2
    /\ \E j \in DOMAIN proxies :
           /\ j # outcome.ret.ref
           /\ made[j].src = made[outcome.ret.ref].src

\* a read of a dunder name raised AttributeError and recorded nothing
DunderReadFailed ==
    /\ outcome.kind = "raise"
    /\ outcome.exc = "AttributeError"
    /\ proxies = outcome.before

\* a selector that returned something else than a proxy made no KeyOf, and
\* an assignment on the proxy raised TypeError and recorded nothing
LiteralAndWriteFail ==
    /\ (outcome.op = "init" /\ outcome.ret.kind # "proxy") =>
           /\ outcome.kind = "raise"
           /\ outcome.exc = "TypeError"
           /\ keyofs = <<>>
    /\ outcome.op = "setattr" =>
           /\ outcome.kind = "raise"
           /\ outcome.exc = "TypeError"
           /\ proxies = outcome.before

\* C12: an ill-formed selector builds no KeyOf: returning anything but a
\* proxy raises TypeError at construction, reading a name that starts and
\* ends with a double underscore raises AttributeError at that read and
\* records no segment, assigning any attribute raises TypeError at that write.
C12_IllFormedSelectorsFail ==
    /\ LiteralAndWriteFail
    /\ (outcome.op = "getattr" /\ IsDunder(outcome.seg)) => DunderReadFailed

\* C12, for the dunder names ordinary lookup does not find
C12_ExceptNamesOfObject ==
    /\ LiteralAndWriteFail
    /\ (outcome.op = "getattr" /\ IsDunder(outcome.seg) /\ outcome.seg \notin ObjectAttrs)
           => DunderReadFailed

\* nn handed back what it was given and no proxy was made
GaveBackTheArgument ==
    /\ outcome.kind = "return"
    /\ outcome.res.val = outcome.arg
    /\ proxies = outcome.before
    /\ outcome.arg.kind = "proxy" =>
           /\ outcome.res.val.ref \in DOMAIN proxies
           /\ proxies[outcome.res.val.ref] = outcome.arg.proxy
           /\ ChainOf(outcome.arg.ref) = outcome.arg.proxy._parts
           /\ KeyOfInitValue(outcome.res.val).obj
                  = ObjectSetattr(NewObject, "_parts", ChainOf(outcome.arg.ref))

\* C13: nn(v) and (v | nn) return v for every value v and record nothing, so
\* the selector goes on with the same proxy and captures the same parts as
\* without nn.
C13_NonNullOnEveryValue ==
    outcome.op = "nn" => GaveBackTheArgument

\* C13, with (v | nn) for the values whose | reaches nn.__ror__: every value
\* of a selector but nn itself, for which nn | nn raises TypeError
C13_NonNullIsIdentity ==
    /\ (outcome.op = "nn" /\ outcome.form = "call") => GaveBackTheArgument
    /\ (outcome.op = "nn" /\ outcome.form = "pipe" /\ outcome.arg # TheNonNull) => GaveBackTheArgument
    /\ (outcome.op = "nn" /\ outcome.form = "pipe" /\ outcome.arg = TheNonNull) =>
           /\ outcome.kind = "raise"
           /\ outcome.exc = "TypeError"
           /\ proxies = outcome.before

\* (proxy | nn) on a proxy two accesses away from the root
C13_Witness ==
    /\ outcome.op = "nn" /\ outcome.form = "pipe"
    /\ outcome.arg.kind = "proxy"
    /\ Len(outcome.arg.proxy._parts) = 2
    /\ outcome.res.val.ref = outcome.arg.ref

-----------------------------------------------------------------------------
(* Claims on replay *)

Direct == Navigate(Ok(instance), selector)

\* C2: when the selector's accesses succeed on the instance itself, from_ on
\* the captured path returns the value those accesses reach.
C2_RoundTrip ==
    (outcome.op = "from_" /\ Direct.ok)
        => (outcome.res.kind = "return" /\ outcome.res.val = Direct.val)

\* an access whose segment from_ resolves the way the access itself does: an
\* attribute read, a non-negative int index into a list, tuple or str, or a
\* str key into a dict that is not the name of a dict attribute
ReplayableAccess(container, acc) ==
    \/ acc.kind = "attr"
    \/ /\ acc.kind = "item" /\ acc.key.t = "int"
       /\ container.t \in {"list", "tuple", "str"} /\ acc.key.n >= 0
    \/ /\ acc.kind = "item" /\ acc.key.t = "str"
       /\ container.t = "dict" /\ ~PyGetAttr(container, acc.key.s).ok

RECURSIVE ReplayableChain(_, _)
ReplayableChain(obj, chain) ==
    IF chain = <<>> THEN TRUE
    ELSE /\ ReplayableAccess(obj, chain[1])
         /\ LET r == Navigate(Ok(obj), <<chain[1]>>)
            IN r.ok => ReplayableChain(r.val, Tail(chain))

\* C2, amended: the round trip holds when every index access of the chain is
\* a non-negative int index into a list, tuple or str, or a str key into a
\* mapping that does not name an attribute of the mapping.
C2_RoundTripOfReplayable ==
    (outcome.op = "from_" /\ Direct.ok /\ ReplayableChain(instance, selector))
        => (outcome.res.kind = "return" /\ outcome.res.val = Direct.val)

\* a key into a dict followed by an index into the list found there was
\* replayed to the value the accesses reach
C2_Witness ==
    /\ outcome.op = "from_" /\ Direct.ok /\ ReplayableChain(instance, selector)
    /\ Len(selector) = 2
    /\ selector[1].kind = "item" /\ selector[1].key.t = "str"
    /\ selector[2].kind = "item" /\ selector[2].key.t = "int" /\ selector[2].key.n = 1
    /\ outcome.res.val = PyStr(S_b)

\* one segment resolved on current: as an attribute, else as an item
ResolveOne(current, part) ==
    LET a == PyGetAttr(current, part)
    IN IF a.ok THEN a ELSE ItemFallback(current, part)

\* the value the first i segments lead to, if each of them resolves
RECURSIVE Reached(_, _, _)
Reached(parts, i, obj) ==
    IF i = 0 THEN Ok(obj)
    ELSE LET before == Reached(parts, i - 1, obj)
         IN IF ~before.ok \/ before.val = PyNone THEN Fail("unresolved")
            ELSE ResolveOne(before.val, parts[i])

\* the first segment that does not resolve, 0 when all do
FirstUnresolved(parts, obj) ==
    LET bad == {i \in 1..Len(parts) : ~Reached(parts, i, obj).ok}
    IN IF bad = {} THEN 0 ELSE CHOOSE i \in bad : \A j \in bad : i <= j

ReplayedParts == Parts(keyofs[outcome.k])
ReplayedFirstUnresolved == FirstUnresolved(ReplayedParts, outcome.obj)

\* C3: with a default, from_ never raises: it returns the resolved value when
\* every segment resolves and the default, at the first unresolved segment,
\* when one does not.
C3_DefaultNeverRaises ==
    (outcome.op = "from_" /\ outcome.default # Missing)
        => /\ outcome.res.kind = "return"
           /\ IF ReplayedFirstUnresolved = 0
              THEN outcome.res.val = Reached(ReplayedParts, Len(ReplayedParts), outcome.obj).val
              ELSE /\ outcome.res.val = outcome.default
                   /\ outcome.res.at = ReplayedFirstUnresolved

\* C3 wherever int() did not fail
C3_DefaultUnlessValueError ==
    (outcome.op = "from_" /\ outcome.default # Missing /\ outcome.res.exc # "ValueError")
        => /\ outcome.res.kind = "return"
           /\ IF ReplayedFirstUnresolved = 0
              THEN outcome.res.val = Reached(ReplayedParts, Len(ReplayedParts), outcome.obj).val
              ELSE /\ outcome.res.val = outcome.default
                   /\ outcome.res.at = ReplayedFirstUnresolved

\* the error from_ raises for the first unresolved segment i
ErrorNamesFirstUnresolved(i) ==
    /\ outcome.res.exc = "AttributeError"
    /\ outcome.res.at = i
    /\ outcome.res.part = ReplayedParts[i]
    /\ outcome.res.prefix = Join(S_dot, SubSeq(ReplayedParts, 1, i - 1))
    /\ LET current == Reached(ReplayedParts, i - 1, outcome.obj).val
       IN outcome.res.on = IF current = PyNone THEN "None" ELSE TypeName(current)

\* C4: without a default, from_ raises AttributeError exactly when some
\* segment does not resolve, and the error names the first such segment, the
\* dot-joined prefix before it and the type of the value it was tried on.
C4_RaisesExactlyWhenUnresolved ==
    (outcome.op = "from_" /\ outcome.default = Missing)
        => /\ (outcome.res.kind = "raise") <=> (ReplayedFirstUnresolved # 0)
           /\ outcome.res.kind = "raise" => ErrorNamesFirstUnresolved(ReplayedFirstUnresolved)

\* C4 wherever int() did not fail
C4_RaisesUnlessValueError ==
    (outcome.op = "from_" /\ outcome.default = Missing /\ outcome.res.exc # "ValueError")
        => /\ (outcome.res.kind = "raise") <=> (ReplayedFirstUnresolved # 0)
           /\ outcome.res.kind = "raise" => ErrorNamesFirstUnresolved(ReplayedFirstUnresolved)

\* from_ without a default on the first i segments of the replayed path
PrefixResult(i) == FromValue(Built(SubSeq(ReplayedParts, 1, i)), outcome.obj, Missing)

\* the segment holds digits and nothing else
OnlyDigits(part) == part # <<>> /\ \A i \in DOMAIN part : IsDigitChar(part[i])

\* one segment by the precedence: the attribute when there is one; else, on
\* a list, tuple or str and for a segment of digits, the item at
\* int(segment); else the item under the segment as a key
ByPrecedence(current, part) ==
    IF PyGetAttr(current, part).ok THEN PyGetAttr(current, part)
    ELSE IF current.t \in {"list", "tuple", "str"} /\ OnlyDigits(part)
    THEN (IF IntOf(part).ok THEN PyGetItem(current, PyInt(IntOf(part).n))
          ELSE Fail(IntOf(part).exc))
    ELSE PyGetItem(current, PyStr(part))

\* segment i of the replayed path was resolved by the precedence on the
\* value the segments before it led to
ResolvedByPrecedence(i) ==
    LET current == PrefixResult(i - 1).val
        want == ByPrecedence(current, ReplayedParts[i])
        got == PrefixResult(i)
    IN /\ want.ok => (got.kind = "return" /\ got.val = want.val)
       /\ ~want.ok => (got.kind = "raise" /\ got.at = i)
       /\ (current.t = "dict" /\ PyGetAttr(current, ReplayedParts[i]).ok) =>
              got.val = PyGetAttr(current, ReplayedParts[i]).val
       /\ (current.t = "dict" /\ ~PyGetAttr(current, ReplayedParts[i]).ok) =>
              (got.kind = "return") = Lookup(current.kids, PyStr(ReplayedParts[i])).ok

\* C14: from_ resolves each segment as an attribute first; only when there
\* is none, as the item at int(segment) on a list, tuple or str when the
\* segment holds only digits, and as the item under the segment as a key
\* otherwise. On a mapping the attribute wins over a key of the same name,
\* and a segment of digits is looked up as the text key.
C14_Precedence ==
    outcome.op = "from_" =>
        /\ \A i \in 1..Len(ReplayedParts) :
               (PrefixResult(i - 1).kind = "return" /\ PrefixResult(i - 1).val # PyNone)
                   => ResolvedByPrecedence(i)
        /\ outcome.default = Missing => outcome.res = PrefixResult(Len(ReplayedParts))

\* d["items"] replayed on a dict that has the key "items" returned the bound
\* method, and the segment "0" on a dict was found under the text key
C14_Witness ==
    /\ outcome.op = "from_" /\ outcome.obj = I_dict /\ outcome.default = Missing
    /\ ReplayedParts = <<S_items>>
    /\ Lookup(I_dict.kids, PyStr(S_items)).val = PyInt(7)
    /\ outcome.res.val = PyMethod(S_items, I_dict)

\* the segment "0" replayed on a dict was found under the text key "0"
C14_WitnessDigitKey ==
    /\ outcome.op = "from_" /\ outcome.obj = I_digits
    /\ ReplayedParts = <<S_0>>
    /\ outcome.res.val = PyInt(0)

\* the segment "1" replayed on a list of two returned its second item
C14_WitnessIndex ==
    /\ outcome.op = "from_" /\ outcome.obj.t = "list"
    /\ ReplayedParts = <<IntToStr(1)>>
    /\ outcome.res.kind = "return"
    /\ outcome.res.val = outcome.obj.kids[2].v

-----------------------------------------------------------------------------
(* Claims on values *)

OnValue(op) == outcome.op = op
Self == outcome.heap[outcome.k]

\* C5: no step changes the parts of a KeyOf that exists, and every attempt
\* to assign an attribute of a KeyOf, _parts included, raises AttributeError.
C5_Immutable ==
    [][/\ \A k \in DOMAIN keyofs :
              k \in DOMAIN keyofs' /\ keyofs'[k].dict = keyofs[k].dict
       /\ outcome'.op = "setattr"
              => outcome'.kind = "raise" /\ outcome'.exc = "AttributeError"]_vars

\* an assignment to _parts was refused on a KeyOf that parent() made
C5_Witness ==
    /\ OnValue("setattr") /\ outcome.name = "_parts" /\ outcome.kind = "raise"
    /\ outcome.k >= 2
    /\ Parts(keyofs[outcome.k]) # <<S_b>>

SameSegments(p, q) == Len(p) = Len(q) /\ \A i \in 1..Len(p) : p[i] = q[i]

\* the texts of ps with sep between neighbours, built from the left
RECURSIVE Joined(_, _)
Joined(sep, ps) ==
    IF Len(ps) = 0 THEN <<>>
    ELSE Joined(sep, SubSeq(ps, 1, Len(ps) - 1))
             \o (IF Len(ps) > 1 THEN sep ELSE <<>>) \o ps[Len(ps)]

\* C6: == between two KeyOf is element-wise equality of their segments, ==
\* with a str is equality with the dot-joined segments, == with anything else
\* is False and never an error, and equal KeyOf have equal hashes.
C6_Equality ==
    OnValue("eq") =>
        /\ outcome.res.kind = "return"
        /\ outcome.other.t = "KeyOf" =>
               /\ outcome.res.val = SameSegments(Parts(Self), Parts(outcome.other.obj))
               /\ outcome.res.val = TRUE => KeyOfHash(Self) = KeyOfHash(outcome.other.obj)
        /\ outcome.other.t = "str" =>
               outcome.res.val = (outcome.other.val.s = Joined(S_dot, Parts(Self)))
        /\ outcome.other.t \notin {"KeyOf", "str"} => outcome.res.val = FALSE

\* the one-segment KeyOf ('a.b',) compared unequal to the two-segment KeyOf
\* ('a', 'b'), which has the same dot rendering
C6_Witness ==
    /\ OnValue("eq") /\ outcome.other.t = "KeyOf"
    /\ Len(Parts(Self)) = 1 /\ Len(Parts(outcome.other.obj)) = 2
    /\ ToDot(Self) = ToDot(outcome.other.obj)
    /\ outcome.res.val = FALSE

\* C7: parent() of a path of two or more segments returns a new KeyOf with
\* all segments but the last and leaves the path as it was; on a shorter path
\* it raises ValueError and makes nothing.
C7_Parent ==
    OnValue("parent") =>
        LET p == Parts(Self)
        IN IF Len(p) >= 2
           THEN /\ outcome.kind = "return"
                /\ Parts(outcome.obj) = [i \in 1..(Len(p) - 1) |-> p[i]]
                /\ SubSeq(keyofs, 1, Len(outcome.heap)) = outcome.heap
                /\ Len(outcome.heap) < MaxKeyOfs => keyofs = Append(outcome.heap, outcome.obj)
           ELSE /\ outcome.kind = "raise" /\ outcome.exc = "ValueError"
                /\ keyofs = outcome.heap

\* a path of three segments, its parent, its grandparent of one segment, and
\* parent() refused on the grandparent
C7_Witness ==
    /\ OnValue("parent") /\ outcome.kind = "raise"
    /\ Len(keyofs) = 3 /\ outcome.k = 3
    /\ Len(Parts(keyofs[1])) = 3 /\ Len(Parts(keyofs[2])) = 2 /\ Len(Parts(keyofs[3])) = 1

\* a before b in the order of str: equal up to some place, where a ends or
\* has the smaller code point
TextBefore(a, b) ==
    \E i \in 1..Len(b) :
        /\ \A j \in 1..(i - 1) : j <= Len(a) /\ a[j] = b[j]
        /\ i > Len(a) \/ a[i] < b[i]

\* p before q in the lexicographic order of tuples of str
PartsBefore(p, q) ==
    \E i \in 1..Len(q) :
        /\ \A j \in 1..(i - 1) : j <= Len(p) /\ p[j] = q[j]
        /\ i > Len(p) \/ (p[i] # q[i] /\ TextBefore(p[i], q[i]))

Count(seq, x) == Cardinality({i \in DOMAIN seq : seq[i] = x})

\* C8: < between two KeyOf is the lexicographic order of their segment
\* tuples, < with anything else raises TypeError, and sorted() puts KeyOf
\* objects in the lexicographic order of their parts.
C8_Ordering ==
    /\ OnValue("lt") =>
           IF outcome.other.t = "KeyOf"
           THEN /\ outcome.res.kind = "return"
                /\ outcome.res.val = PartsBefore(Parts(Self), Parts(outcome.other.obj))
           ELSE outcome.res.kind = "raise" /\ outcome.res.exc = "TypeError"
    /\ OnValue("sorted") =>
           /\ Len(outcome.res) = Len(outcome.input)
           /\ \A i \in DOMAIN outcome.input :
                  Count(outcome.res, outcome.input[i]) = Count(outcome.input, outcome.input[i])
           /\ \A i, j \in DOMAIN outcome.res :
                  i < j => ~PartsBefore(Parts(outcome.res[j]), Parts(outcome.res[i]))

\* a collection that was not in order has been sorted, with ('a', 'b') placed
\* before ('a.b',)
C8_Witness ==
    /\ OnValue("sorted")
    /\ \E i, j \in DOMAIN outcome.input :
           i < j /\ PartsBefore(Parts(outcome.input[j]), Parts(outcome.input[i]))
    /\ \E i, j \in DOMAIN outcome.res :
           i < j /\ Parts(outcome.res[i]) = <<S_a, S_b>> /\ Parts(outcome.res[j]) = <<S_a_dot_b>>
    /\ Len(outcome.heap) >= 2

\* every segment wrapped as ['segment'], one after the other
RECURSIVE Wrapped(_)
Wrapped(ps) ==
    IF Len(ps) = 0 THEN <<>>
    ELSE Wrapped(SubSeq(ps, 1, Len(ps) - 1)) \o <<91, 39>> \o ps[Len(ps)] \o <<39, 93>>

Rendering(fmt, ps) ==
    CASE fmt \in {"to_dot", "to_python", "to_jmespath", "str"} -> Joined(S_dot, ps)
      [] fmt = "to_posix" -> Joined(S_slash, ps)
      [] fmt = "to_bracket" -> Wrapped(ps)
      [] fmt = "to_jsonpath" -> <<36, 46>> \o Joined(S_dot, ps)
      [] fmt = "to_xpath" -> <<47>> \o Joined(S_slash, ps)

\* C9: each serialization returns the rendering of the segments in its
\* notation, returns it again when called again, and leaves every KeyOf and
\* the data instance as they were.
C9_Serializations ==
    OnValue("render") =>
        /\ outcome.res.kind = "return"
        /\ outcome.res.val = Rendering(outcome.fmt, Parts(Self))
        /\ outcome.res.val = Serialize(outcome.fmt, keyofs[outcome.k])
        /\ keyofs = outcome.heap
        /\ instance = PyNone

\* a three-segment path with a dotted segment rendered in posix notation
C9_Witness ==
    /\ OnValue("render") /\ outcome.fmt = "to_posix"
    /\ Len(Parts(Self)) = 3 /\ Parts(Self)[2] = S_a_dot_b
    /\ Len(outcome.res.val) >= 7

IdentitySelector == <<>>

\* C10: the selector that returns its argument builds the path without
\* segments; its dot rendering and str are empty, from_ returns the instance
\* itself with and without a default, and root, leaf and parent() raise.
C10_IdentityPath ==
    /\ Parts(KeyOfInitValue(RunSelector([kind |-> "proxy", proxy |-> NewProxy(<<>>)],
                                        IdentitySelector)).obj) = <<>>
    /\ (outcome.op \in {"render", "from_", "root", "leaf", "parent"} /\ Parts(Self) = <<>>) =>
           /\ (OnValue("render") /\ outcome.fmt \in {"to_dot", "str"}) => outcome.res.val = <<>>
           /\ OnValue("from_") => outcome.res.kind = "return" /\ outcome.res.val = outcome.obj
           /\ outcome.op \in {"root", "leaf"} => outcome.res.kind = "raise"
           /\ OnValue("parent") => outcome.kind = "raise" /\ keyofs = outcome.heap

\* the identity path replayed on None with a default returned None, not the default
C10_Witness ==
    /\ OnValue("from_") /\ Parts(Self) = <<>>
    /\ outcome.obj = PyNone /\ outcome.default = PyStr(S_D)
    /\ outcome.res.val = PyNone

-----------------------------------------------------------------------------
(* Claims on format *)

\* what each named variable stands for, from the segments alone
Variable(name, ps) ==
    CASE name = N_root -> ps[1]
      [] name = N_leaf -> ps[Len(ps)]
      [] name = N_depth -> IntToStr(Len(ps))
      [] name = N_dot -> Rendering("to_dot", ps)
      [] name = N_posix -> Rendering("to_posix", ps)
      [] name = N_bracket -> Rendering("to_bracket", ps)
      [] name = N_jsonpath -> Rendering("to_jsonpath", ps)
      [] name = N_xpath -> Rendering("to_xpath", ps)
      [] name = N_parts -> TupleStr(ps)
      [] name = N_sep -> Joined(S_dot, ps)

\* the variable that stands for a to_* method
FieldOf(fmt) ==
    CASE fmt = "to_dot" -> N_dot
      [] fmt = "to_posix" -> N_posix
      [] fmt = "to_bracket" -> N_bracket
      [] fmt = "to_jsonpath" -> N_jsonpath
      [] fmt = "to_xpath" -> N_xpath

\* the pieces of a template with every field replaced by its variable
RECURSIVE Interpolated(_, _)
Interpolated(pieces, ps) ==
    IF pieces = <<>> THEN <<>>
    ELSE (IF pieces[1].kind = "field" THEN Variable(pieces[1].s, ps) ELSE pieces[1].s)
         \o Interpolated(Tail(pieces), ps)

\* C11: on a path with at least one segment, format returns the template
\* with every placeholder replaced by its variable (root the first segment,
\* leaf the last, depth the count, dot, posix, bracket, jsonpath and xpath as
\* the to_* methods return them, parts the tuple of segments, sep the
\* dot-joined form) and the text outside the placeholders as it stands.
C11_Format ==
    (OnValue("format") /\ Len(Parts(Self)) >= 1) =>
        /\ \A pieces \in TemplatePieces :
               outcome.template = TemplateText(pieces) =>
                   /\ outcome.res.kind = "return"
                   /\ outcome.res.val = Interpolated(pieces, Parts(Self))
        /\ \A fmt \in {"to_dot", "to_posix", "to_bracket", "to_jsonpath", "to_xpath"} :
               KeyOfFormat(Self, TemplateText(<<Field(FieldOf(fmt))>>))
                   = Returned(Serialize(fmt, Self))
        /\ keyofs = outcome.heap

\* "{root} -> {leaf}" on a three-segment path whose root and leaf differ
C11_Witness ==
    /\ OnValue("format")
    /\ outcome.template = TemplateText(<<Field(N_root), Text(<<32, 45, 62, 32>>), Field(N_leaf)>>)
    /\ Len(Parts(Self)) = 3
    /\ Parts(Self)[1] = S_a /\ Parts(Self)[3] = S_a_dot_b
    /\ outcome.res.val = S_a \o <<32, 45, 62, 32>> \o S_a_dot_b
\* C16: on the path without segments format raises for every template, the
\* ones that name neither root nor leaf and the ones without a placeholder
\* included, while to_dot, to_posix, to_bracket, to_jsonpath and to_xpath
\* return on that path.
C16_FormatOnIdentityPath ==
    /\ (OnValue("format") /\ Parts(Self) = <<>>) =>
           /\ outcome.res.kind = "raise"
           /\ outcome.res.exc = "IndexError"
           /\ KeyOfRoot(Self).kind = "raise"
    /\ (OnValue("render") /\ Parts(Self) = <<>>
            /\ outcome.fmt \in {"to_dot", "to_posix", "to_bracket", "to_jsonpath", "to_xpath"}) =>
           outcome.res.kind = "return"

\* "{dot}{posix}{bracket}" raised on the path without segments
C16_Witness ==
    /\ OnValue("format") /\ Parts(Self) = <<>>
    /\ outcome.template = TemplateText(<<Field(N_dot), Field(N_posix), Field(N_bracket)>>)
    /\ outcome.res.kind = "raise"

\* a template without a placeholder raised on the path without segments
C16_WitnessPlain ==
    /\ OnValue("format") /\ Parts(Self) = <<>>
    /\ outcome.template = S_a_dot_b
    /\ outcome.res.exc = "IndexError"

-----------------------------------------------------------------------------
(* Claims on equality through text *)

\* the paths at hand: the objects alive and the ones built on the spot
PathsAtHand ==
    {outcome.heap[j] : j \in DOMAIN outcome.heap} \cup {OtherObjects[j] : j \in DOMAIN OtherObjects}

\* C15: equality through a text is transitive: when a path compared equal to
\* a text, every other path that compares equal to that text compares equal
\* to the path and has its hash, so that the dot rendering names one path.
C15_EqualThroughText ==
    (OnValue("eq") /\ outcome.other.t = "str" /\ outcome.res.val = TRUE) =>
        \A p2 \in PathsAtHand :
            EqOperator(p2, outcome.other).val = TRUE =>
                /\ EqOperator(Self, OtherKeyOf(p2)).val = TRUE
                /\ KeyOfHash(Self) = KeyOfHash(p2)

====
